---- MODULE Spec2Model ----
(***************************************************************************)
(* Model of the parseal parser-combinator engine (src/src/parsing.rs and   *)
(* src/src/parsing/tokens.rs).  An input text is a sequence of one-        *)
(* character strings; a Position is the 0-based offset into it.  Every     *)
(* parser is an operator from (input, cursor) to a result record that      *)
(* holds the outcome and the caller's cursor after the call.  The two      *)
(* open-ended repetitions, Vec and Indent, are run one loop iteration per  *)
(* step, so that a repetition that never ends is a behaviour of the model. *)
(***************************************************************************)
EXTENDS Integers, Sequences, FiniteSets, TLC

VARIABLES input, target, pc, start, cur, iv, depth, position, vec, item, res

vars == <<input, target, pc, start, cur, iv, depth, position, vec, item, res>>

----------------------------------------------------------------------------
(* Bounds of the model.                                                    *)

\* longest input text of the general specification
MaxLen == 3
\* longest input text of the specification of groups
MaxLenSmall == 5
\* longest input text of the specifications of lists and of indent blocks
MaxLenList == 7
\* loop iterations after which a repetition is no longer followed
MaxIter == 7

----------------------------------------------------------------------------
(* Characters.                                                             *)

QUOTE == "\""
NL == "\n"
SPACE == " "
NONE == "<none>"

is_whitespace(c) == c \in {SPACE, NL}
is_alphabetic(c) == c \in {"a", "b"}
is_numeric(c) == c \in {"4", "2"}
is_alphanumeric(c) == is_alphabetic(c) \/ is_numeric(c)

----------------------------------------------------------------------------
(* CharStream: the cursor.  charstream.rs is not part of the sources; the  *)
(* cursor follows section 4.1 of the specification and the calls made on   *)
(* it by parsing.rs (clone, next, position, goto, set_whitespace, indent). *)

CharStream(p, ws) == [pos |-> p, ws |-> ws]

set_whitespace(c, ws) == [c EXCEPT !.ws = ws]

\* first offset >= p that does not hold a whitespace character
RECURSIVE SkipWs(_, _)
SkipWs(inp, p) ==
    IF p < Len(inp) /\ is_whitespace(inp[p + 1]) THEN SkipWs(inp, p + 1) ELSE p

\* the offset next() reads at: KeepAll returns whitespace verbatim, the
\* other modes skip it before a character is returned
StreamSkip(inp, c) == IF c.ws = "KeepAll" THEN c.pos ELSE SkipWs(inp, c.pos)

\* the character at offset q (NONE at the end of input) and the cursor
\* past it
StreamTake(inp, c, q) ==
    IF q < Len(inp)
    THEN [ch |-> inp[q + 1], cur |-> [c EXCEPT !.pos = q + 1]]
    ELSE [ch |-> NONE, cur |-> [c EXCEPT !.pos = q]]

\* next(): the character returned (NONE at the end of input) and the
\* advanced cursor
StreamNext(inp, c) == StreamTake(inp, c, StreamSkip(inp, c))

\* goto(position): fails only for a position outside the text
GotoOk(inp, p) == p >= 0 /\ p <= Len(inp)
Goto(inp, c, p) == [c EXCEPT !.pos = p]

\* offset of the first character of the line that holds offset p
RECURSIVE LineStart(_, _)
LineStart(inp, p) ==
    IF p = 0 \/ inp[p] = NL THEN p ELSE LineStart(inp, p - 1)

\* number of blanks before the first other character, from offset p on
RECURSIVE LeadingBlanks(_, _)
LeadingBlanks(inp, p) ==
    IF p < Len(inp) /\ inp[p + 1] = SPACE THEN 1 + LeadingBlanks(inp, p + 1) ELSE 0

\* indent(): the measured indentation depth of the cursor's line
StreamIndent(inp, c) ==
    IF c.ws = "Indent" THEN LeadingBlanks(inp, LineStart(inp, c.pos)) ELSE 0

----------------------------------------------------------------------------
(* Outcomes.                                                               *)

NoPosition == 0 - 1

\* ParseError(String, Position): the tuple struct of parsing.rs has no kind
ParseError(msg, p) == [kind |-> "Plain", msg |-> msg, pos |-> p]

\* ParseError::not_found(message), as called by the token parsers with the
\* message alone.  The constructor is not part of the sources: it makes the
\* soft failure, and no position of the attempt reaches it
not_found(msg) == [kind |-> "NotFound", msg |-> msg, pos |-> NoPosition]

NoError == [kind |-> "None", msg |-> "", pos |-> NoPosition]

Span(s, e) == [start |-> s, end |-> e]
NoSpan == Span(NoPosition, NoPosition)

\* a result: ok, the error, the caller's cursor after the call, span() of the
\* value, its text, its children and, for a List, the separators recorded
Ok(c, sp, val, kids, seps) ==
    [ok |-> TRUE, err |-> NoError, cur |-> c, span |-> sp, val |-> val,
     kids |-> kids, seps |-> seps]
Err(c, e) ==
    [ok |-> FALSE, err |-> e, cur |-> c, span |-> NoSpan, val |-> <<>>,
     kids |-> <<>>, seps |-> <<>>]

----------------------------------------------------------------------------
(* Primitive leaf parsers (parsing.rs).                                    *)

\* the guard of the inner loop of Identifier, Number and StringValue
Accepts(which, ch) ==
    CASE which = "Identifier" -> is_alphanumeric(ch)
      [] which = "Number" -> is_numeric(ch)
      [] OTHER -> ch # QUOTE

RECURSIVE ReadRun(_, _, _, _, _)

\* one turn of the inner loop, n being what next() gave: an accepted
\* character is pushed and the position after it kept, anything else ends
\* the loop
ReadStep(which, inp, n, text, p) ==
    IF n.ch # NONE /\ Accepts(which, n.ch)
    THEN ReadRun(which, inp, n.cur, Append(text, n.ch), n.cur.pos)
    ELSE [text |-> text, position |-> p]

\* the inner loop: reads from the copy c while the guard accepts, and
\* returns the text pushed and the position after the last accepted
\* character
ReadRun(which, inp, c, text, p) ==
    ReadStep(which, inp, StreamNext(inp, c), text, p)

\* the end of Identifier::parse and Number::parse: value.goto(position)?,
\* then the span from the position of the call to the position reached
RunResult(inp, value, run) ==
    IF GotoOk(inp, run.position)
    THEN Ok(Goto(inp, value, run.position), Span(value.pos, run.position),
            run.text, <<>>, <<>>)
    ELSE Err(value, ParseError("goto: position out of range", run.position))

\* IdentifierFirst with the first next() made on the caller's cursor
\* instead of the copy: a failure leaves the cursor where next() put it
IdentifierFirstOnCaller(inp, value, n) ==
    IF n.ch # NONE /\ is_alphabetic(n.ch)
    THEN RunResult(inp, value,
                   ReadRun("Identifier", inp, set_whitespace(n.cur, "KeepAll"),
                           <<n.ch>>, n.cur.pos))
    ELSE Err(n.cur, ParseError("Did not find identifier", n.cur.pos))

\* Identifier::parse after the first next() on the copy, which gave n
IdentifierFirst(inp, value, n) ==
    IF n.ch # NONE /\ is_alphabetic(n.ch)
    THEN RunResult(inp, value,
                   ReadRun("Identifier", inp, set_whitespace(n.cur, "KeepAll"),
                           <<n.ch>>, n.cur.pos))
    ELSE Err(value, ParseError("Did not find identifier", n.cur.pos))

\* Identifier::parse
IdentifierParse(inp, value) ==
    IdentifierFirst(inp, value, StreamNext(inp, value))

\* Number::parse after the first next() on the copy, which gave n
NumberFirst(inp, value, n) ==
    IF n.ch # NONE /\ is_numeric(n.ch)
    THEN RunResult(inp, value,
                   ReadRun("Number", inp, set_whitespace(n.cur, "KeepAll"),
                           <<n.ch>>, n.cur.pos))
    ELSE Err(value, ParseError("Did not find number", n.cur.pos))

\* Number::parse
NumberParse(inp, value) ==
    NumberFirst(inp, value, StreamNext(inp, value))

----------------------------------------------------------------------------
(* Literal tokens and delimiters (parsing/tokens.rs).                      *)

RECURSIVE TokenLoop(_, _, _, _)

\* one turn of the loop of a create_tokens! parser, n being what next()
\* gave: the end of input ends the loop, a whitespace character is passed
\* over wherever it stands, any other character is pushed
TokenStep(len, inp, n, mtch) ==
    IF n.ch = NONE THEN [mtch |-> mtch, cur |-> n.cur]
    ELSE IF is_whitespace(n.ch) THEN TokenLoop(len, inp, n.cur, mtch)
    ELSE TokenLoop(len, inp, n.cur, Append(mtch, n.ch))

\* the loop of a create_tokens! parser: it runs until the match is as long
\* as the literal
TokenLoop(len, inp, c, mtch) ==
    IF Len(mtch) < len
    THEN TokenStep(len, inp, StreamNext(inp, c), mtch)
    ELSE [mtch |-> mtch, cur |-> c]

\* stringify!($token), as a sequence of characters
Comma == <<",">>
Equal == <<"=">>
EqualEqual == <<"=", "=">>

\* concat!("Could not find token '", stringify!($token), "'.")
TokenMessage(token) ==
    CASE token = Comma -> "Could not find token ','."
      [] token = Equal -> "Could not find token '='."
      [] OTHER -> "Could not find token '=='."

\* the end of $id::parse: the match is compared with the literal.  The
\* token is a unit struct, Ok(Self {}): it has no text and no span, and
\* the characters read stay read whatever the outcome
TokenResult(token, r) ==
    IF token = r.mtch
    THEN Ok(r.cur, NoSpan, <<>>, <<>>, <<>>)
    ELSE Err(r.cur, not_found(TokenMessage(token)))

\* $id::parse of create_tokens!, for the literal token (a sequence of
\* characters)
TokenParse(token, inp, value) ==
    TokenResult(token, TokenLoop(Len(token), inp, value, <<>>))

RECURSIVE DelimLoop(_, _, _)

\* one turn of the loop of a delimiter side, n being what next() gave: the
\* wanted character ends it with Ok, a whitespace character is passed over,
\* anything else (or the end of input) fails
DelimStep(chr, inp, n) ==
    IF n.ch # NONE /\ n.ch = chr THEN [found |-> TRUE, cur |-> n.cur]
    ELSE IF n.ch # NONE /\ is_whitespace(n.ch) THEN DelimLoop(chr, inp, n.cur)
    ELSE [found |-> FALSE, cur |-> n.cur]

\* the loop of a delimiter side
DelimLoop(chr, inp, c) == DelimStep(chr, inp, StreamNext(inp, c))

\* stringify!($token) of create_delimiters!
DelimText(d) ==
    CASE d = "Paren" -> <<"(", ")">>
      [] d = "Bracket" -> <<"[", "]">>
      [] OTHER -> <<QUOTE, QUOTE>>

\* the messages of the two sides of a delimiter
LeftMessage(d) ==
    CASE d = "Paren" -> "could not find left side of: '()'."
      [] d = "Bracket" -> "could not find left side of: '[]'."
      [] OTHER -> "could not find left side of: '\"\"'."
RightMessage(d) ==
    CASE d = "Paren" -> "could not parse right side of: '()'."
      [] d = "Bracket" -> "could not parse right side of: '[]'."
      [] OTHER -> "could not parse right side of: '\"\"'."

\* the end of a delimiter side: Ok(Self {}) of a unit struct, or
\* not_found(message); the characters read stay read whatever the outcome
DelimResult(msg, r) ==
    IF r.found
    THEN Ok(r.cur, NoSpan, <<>>, <<>>, <<>>)
    ELSE Err(r.cur, not_found(msg))

\* $left::parse
LeftParse(d, inp, value) ==
    DelimResult(LeftMessage(d), DelimLoop(DelimText(d)[1], inp, value))

\* $right::parse
RightParse(d, inp, value) ==
    DelimResult(RightMessage(d), DelimLoop(DelimText(d)[2], inp, value))

\* A token parser as parsing.rs calls it, on a CharStream.  tokens.rs reads
\* from a Peekable<Chars> and its tokens have no span, so the implementation
\* parsing.rs is compiled against is not part of the sources.  Its doc tests
\* fix what a failed attempt does to the cursor: "[0, 1, 2]" is a
\* Group<Bracket, List<Number, Comma>> (parsing.rs:41-45) and a List whose
\* first item fails "will not consume anything" (parsing.rs:107-111), so the
\* attempt r is made on a copy of the cursor value, which is committed on
\* success and left where it was on failure.  The span of the token is the
\* range of the cursor, from before the call to after it.
OnCharStream(value, r) ==
    IF r.ok
    THEN Ok(r.cur, Span(value.pos, r.cur.pos), <<>>, <<>>, <<>>)
    ELSE Err(value, r.err)

\* S::parse(value) of a separator token
SeparatorParse(token, inp, value) ==
    OnCharStream(value, TokenParse(token, inp, value))

\* D::Start::parse(value)
StartParse(d, inp, value) == OnCharStream(value, LeftParse(d, inp, value))

\* D::End::parse(value)
EndParse(d, inp, value) == OnCharStream(value, RightParse(d, inp, value))

\* Delimiter::span(): from the start of the Start token to the end of the
\* End token
DelimiterSpan(left, right) == Span(left.span.start, right.span.end)

\* StringValue::parse from the parse of the closing quote on
StringAfterRight(left, run, right) ==
    IF ~right.ok THEN right
    ELSE Ok(right.cur, DelimiterSpan(left, right), run.text, <<>>, <<>>)

\* StringValue::parse from value.goto(position)? on
StringAfterRun(inp, left, run) ==
    IF ~GotoOk(inp, run.position)
    THEN Err(left.cur, ParseError("goto: position out of range", run.position))
    ELSE StringAfterRight(left, run,
             EndParse("Quote", inp, Goto(inp, left.cur, run.position)))

\* StringValue::parse after the opening quote: the characters are read
\* from a copy in KeepAll mode
StringAfterLeft(inp, left) ==
    IF ~left.ok THEN left
    ELSE StringAfterRun(inp, left,
             ReadRun("StringValue", inp, set_whitespace(left.cur, "KeepAll"),
                     <<>>, left.cur.pos))

\* StringValue::parse
StringValueParse(inp, value) ==
    StringAfterLeft(inp, StartParse("Quote", inp, value))

----------------------------------------------------------------------------
(* Combinators (parsing.rs).  A parseable type is a tuple: <<"Identifier">>,*)
(* <<"Number">>, <<"StringValue">>, <<"Token", literal>>,                  *)
(* <<"Left", delimiter>>, <<"Right", delimiter>>,                          *)
(* <<"Group", delimiter, Item>>, <<"List", Item, Separator>>,              *)
(* <<"Array", Item, N>>, <<"Tuple2", A, B>>, <<"Tuple3", A, B, C>>.        *)

RECURSIVE Parse(_, _, _)
RECURSIVE ListLoop(_, _, _, _, _, _)
RECURSIVE ArrayLoop(_, _, _, _, _)

\* T::parse(value), the call a combinator makes on a component type
ParseItem(t, inp, value) == Parse(t, inp, value)

\* Group::parse from the parse of End on, and Group::span
GroupAfterEnd(left, it, right) ==
    IF ~right.ok THEN Err(right.cur, right.err)
    ELSE Ok(right.cur, DelimiterSpan(left, right), <<>>, <<left, it, right>>,
            <<>>)

\* Group::parse from the parse of the Item on
GroupAfterItem(D, inp, left, it) ==
    IF ~it.ok THEN Err(it.cur, it.err)
    ELSE GroupAfterEnd(left, it, EndParse(D, inp, it.cur))

\* Group::parse after Start, with the End token parsed before the Item
GroupAfterStartEndFirst(D, I, inp, left) ==
    IF ~left.ok THEN left
    ELSE GroupAfterItem(D, inp, left,
                        ParseItem(I, inp, EndParse(D, inp, left.cur).cur))

\* Group::parse after the parse of Start
GroupAfterStart(D, I, inp, left) ==
    IF ~left.ok THEN left
    ELSE GroupAfterItem(D, inp, left, ParseItem(I, inp, left.cur))

\* Group::parse
GroupParse(D, I, inp, value) ==
    GroupAfterStart(D, I, inp, StartParse(D, inp, value))

\* ListItemFailed with the test on items.len() lost: an Item failure is
\* returned whatever has been collected
ListItemFailedAlways(begin, it, items, seps) == Err(it.cur, it.err)

\* what List::parse does when an Item fails: the failure is returned once
\* an item has been collected, an empty list ends the loop
ListItemFailed(begin, it, items, seps) ==
    IF Len(items) > 0
    THEN Err(it.cur, it.err)
    ELSE Ok(it.cur, Span(begin, it.cur.pos), <<>>, items, seps)

\* ListSeparatorFailed with the push of the last item lost
ListSeparatorFailedDropsItem(begin, separator, it, items, seps) ==
    Ok(separator.cur, Span(begin, separator.cur.pos), <<>>, items, seps)

\* what List::parse does when the Separator fails: the item is pushed
\* without a separator and the loop ends
ListSeparatorFailed(begin, separator, it, items, seps) ==
    Ok(separator.cur, Span(begin, separator.cur.pos), <<>>,
       Append(items, it), Append(seps, FALSE))

\* one turn of the loop of List::parse, from the parse of the Separator on
ListAfterSeparator(I, S, inp, begin, acc, it, separator) ==
    IF ~separator.ok
    THEN ListSeparatorFailed(begin, separator, it, acc.items, acc.seps)
    ELSE ListLoop(I, S, inp, separator.cur, begin,
                  [items |-> Append(acc.items, it),
                   seps |-> Append(acc.seps, TRUE)])

\* one turn of the loop of List::parse, from the parse of the Item on
ListAfterItem(I, S, inp, begin, acc, it) ==
    IF ~it.ok THEN ListItemFailed(begin, it, acc.items, acc.seps)
    ELSE ListAfterSeparator(I, S, inp, begin, acc, it,
                            ParseItem(S, inp, it.cur))

\* the loop of List::parse; begin is the position taken before the loop
ListLoop(I, S, inp, value, begin, acc) ==
    ListAfterItem(I, S, inp, begin, acc, ParseItem(I, inp, value))

\* List::parse
ListParse(I, S, inp, value) ==
    ListLoop(I, S, inp, value, value.pos, [items |-> <<>>, seps |-> <<>>])

\* one turn of the loop of [T; N]::parse: result.push(T::parse(value)?)
ArrayAfterItem(T, N, inp, result, it) ==
    IF ~it.ok THEN Err(it.cur, it.err)
    ELSE ArrayLoop(T, N, inp, it.cur, Append(result, it))

\* the loop of [T; N]::parse, with [T; N]::span
ArrayLoop(T, N, inp, value, result) ==
    IF Len(result) < N
    THEN ArrayAfterItem(T, N, inp, result, ParseItem(T, inp, value))
    ELSE Ok(value, Span(result[1].span.start, result[N].span.end), <<>>,
            result, <<>>)

\* [T; N]::parse
ArrayParse(T, N, inp, value) == ArrayLoop(T, N, inp, value, <<>>)

\* (A, B)::parse from B::parse(value)? on, and (A, B)::span
Tuple2AfterB(a, b) ==
    IF ~b.ok THEN Err(b.cur, b.err)
    ELSE Ok(b.cur, Span(a.span.start, b.span.end), <<>>, <<a, b>>, <<>>)

\* (A, B)::parse from A::parse(value)? on
Tuple2AfterA(B, inp, a) ==
    IF ~a.ok THEN Err(a.cur, a.err)
    ELSE Tuple2AfterB(a, ParseItem(B, inp, a.cur))

\* (A, B)::parse
Tuple2Parse(A, B, inp, value) == Tuple2AfterA(B, inp, ParseItem(A, inp, value))

\* (A, B, C)::parse from C::parse(value)? on, and (A, B, C)::span
Tuple3AfterC(a, b, c) ==
    IF ~c.ok THEN Err(c.cur, c.err)
    ELSE Ok(c.cur, Span(a.span.start, c.span.end), <<>>, <<a, b, c>>, <<>>)

\* (A, B, C)::parse from B::parse(value)? on
Tuple3AfterB(C, inp, a, b) ==
    IF ~b.ok THEN Err(b.cur, b.err)
    ELSE Tuple3AfterC(a, b, ParseItem(C, inp, b.cur))

\* (A, B, C)::parse from A::parse(value)? on
Tuple3AfterA(B, C, inp, a) ==
    IF ~a.ok THEN Err(a.cur, a.err)
    ELSE Tuple3AfterB(C, inp, a, ParseItem(B, inp, a.cur))

\* (A, B, C)::parse
Tuple3Parse(A, B, C, inp, value) ==
    Tuple3AfterA(B, C, inp, ParseItem(A, inp, value))

\* Parse::parse, dispatched on the type
Parse(t, inp, value) ==
    CASE t[1] = "Identifier" -> IdentifierParse(inp, value)
      [] t[1] = "Number" -> NumberParse(inp, value)
      [] t[1] = "StringValue" -> StringValueParse(inp, value)
      [] t[1] = "Token" -> SeparatorParse(t[2], inp, value)
      [] t[1] = "Left" -> StartParse(t[2], inp, value)
      [] t[1] = "Right" -> EndParse(t[2], inp, value)
      [] t[1] = "Group" -> GroupParse(t[2], t[3], inp, value)
      [] t[1] = "List" -> ListParse(t[2], t[3], inp, value)
      [] t[1] = "Array" -> ArrayParse(t[2], t[3], inp, value)
      [] t[1] = "Tuple2" -> Tuple2Parse(t[2], t[3], inp, value)
      [] OTHER -> Tuple3Parse(t[2], t[3], t[4], inp, value)

----------------------------------------------------------------------------
(* The types parsed by the model, by name.                                 *)

TypeOf(name) ==
    CASE name = "Identifier" -> <<"Identifier">>
      [] name = "Number" -> <<"Number">>
      [] name = "StringValue" -> <<"StringValue">>
      [] name = "Comma" -> <<"Token", Comma>>
      [] name = "Equal" -> <<"Token", Equal>>
      [] name = "EqualEqual" -> <<"Token", EqualEqual>>
      [] name = "LeftParen" -> <<"Left", "Paren">>
      [] name = "RightParen" -> <<"Right", "Paren">>
      [] name = "Group<Paren,Number>" -> <<"Group", "Paren", <<"Number">>>>
      [] name = "Group<Paren,StringValue>" ->
            <<"Group", "Paren", <<"StringValue">>>>
      [] name = "Group<Paren,List<Number,Comma>>" ->
            <<"Group", "Paren", <<"List", <<"Number">>, <<"Token", Comma>>>>>>
      [] name = "List<Identifier,Comma>" ->
            <<"List", <<"Identifier">>, <<"Token", Comma>>>>
      [] name = "List<Number,Comma>" ->
            <<"List", <<"Number">>, <<"Token", Comma>>>>
      [] name = "List<StringValue,Comma>" ->
            <<"List", <<"StringValue">>, <<"Token", Comma>>>>
      [] name = "[Number;2]" -> <<"Array", <<"Number">>, 2>>
      [] name = "[Group<Paren,Number>;2]" ->
            <<"Array", <<"Group", "Paren", <<"Number">>>>, 2>>
      [] name = "(Identifier,Number)" ->
            <<"Tuple2", <<"Identifier">>, <<"Number">>>>
      [] name = "(Identifier,Comma,StringValue)" ->
            <<"Tuple3", <<"Identifier">>, <<"Token", Comma>>, <<"StringValue">>>>
      [] name = "Vec<Identifier>" -> <<"Vec", <<"Identifier">>>>
      [] name = "Vec<StringValue>" -> <<"Vec", <<"StringValue">>>>
      [] name = "Vec<List<Identifier,Comma>>" ->
            <<"Vec", <<"List", <<"Identifier">>, <<"Token", Comma>>>>>>
      [] name = "Indent<Identifier>" -> <<"Indent", <<"Identifier">>>>
      [] name = "Indent<StringValue>" -> <<"Indent", <<"StringValue">>>>
      [] OTHER -> <<"Indent", <<"List", <<"Identifier">>, <<"Token", Comma>>>>>>

KindOf(name) == TypeOf(name)[1]
ItemOf(name) == TypeOf(name)[2]

----------------------------------------------------------------------------
(* The state machine: one parse call on a fresh CharStream.                *)

\* every text of at most n characters over the alphabet
Texts(alphabet, n) == UNION {[1..k -> alphabet] : k \in 0..n}

NoResult == Err(CharStream(0, "SkipAll"), NoError)

\* CharStream::new(buffer).build(), and the call about to be made
InitWith(texts, targets) ==
    /\ input \in texts
    /\ target \in targets
    /\ pc = "start"
    /\ start = CharStream(0, "SkipAll")
    /\ cur = CharStream(0, "SkipAll")
    /\ iv = CharStream(0, "SkipAll")
    /\ depth = 0
    /\ position = 0
    /\ vec = <<>>
    /\ item = NoResult
    /\ res = NoResult

\* Each of the next actions is one call that runs to its return: the result
\* is kept and the caller's cursor is the one the call leaves.

\* Identifier::parse
ParseIdentifier ==
    /\ pc = "start"
    /\ KindOf(target) = "Identifier"
    /\ res' = IdentifierParse(input, cur)
    /\ cur' = res'.cur
    /\ pc' = "done"
    /\ UNCHANGED <<input, target, start, iv, depth, position, vec, item>>

\* Number::parse
ParseNumber ==
    /\ pc = "start"
    /\ KindOf(target) = "Number"
    /\ res' = NumberParse(input, cur)
    /\ cur' = res'.cur
    /\ pc' = "done"
    /\ UNCHANGED <<input, target, start, iv, depth, position, vec, item>>

\* StringValue::parse
ParseStringValue ==
    /\ pc = "start"
    /\ KindOf(target) = "StringValue"
    /\ res' = StringValueParse(input, cur)
    /\ cur' = res'.cur
    /\ pc' = "done"
    /\ UNCHANGED <<input, target, start, iv, depth, position, vec, item>>

\* $id::parse of a literal token
ParseToken ==
    /\ pc = "start"
    /\ KindOf(target) = "Token"
    /\ res' = TokenParse(TypeOf(target)[2], input, cur)
    /\ cur' = res'.cur
    /\ pc' = "done"
    /\ UNCHANGED <<input, target, start, iv, depth, position, vec, item>>

\* $left::parse of a delimiter
ParseLeft ==
    /\ pc = "start"
    /\ KindOf(target) = "Left"
    /\ res' = LeftParse(TypeOf(target)[2], input, cur)
    /\ cur' = res'.cur
    /\ pc' = "done"
    /\ UNCHANGED <<input, target, start, iv, depth, position, vec, item>>

\* $right::parse of a delimiter
ParseRight ==
    /\ pc = "start"
    /\ KindOf(target) = "Right"
    /\ res' = RightParse(TypeOf(target)[2], input, cur)
    /\ cur' = res'.cur
    /\ pc' = "done"
    /\ UNCHANGED <<input, target, start, iv, depth, position, vec, item>>

\* Group::parse
ParseGroup ==
    /\ pc = "start"
    /\ KindOf(target) = "Group"
    /\ res' = GroupParse(TypeOf(target)[2], TypeOf(target)[3], input, cur)
    /\ cur' = res'.cur
    /\ pc' = "done"
    /\ UNCHANGED <<input, target, start, iv, depth, position, vec, item>>

\* List::parse
ParseList ==
    /\ pc = "start"
    /\ KindOf(target) = "List"
    /\ res' = ListParse(TypeOf(target)[2], TypeOf(target)[3], input, cur)
    /\ cur' = res'.cur
    /\ pc' = "done"
    /\ UNCHANGED <<input, target, start, iv, depth, position, vec, item>>

\* [T; N]::parse
ParseArray ==
    /\ pc = "start"
    /\ KindOf(target) = "Array"
    /\ res' = ArrayParse(TypeOf(target)[2], TypeOf(target)[3], input, cur)
    /\ cur' = res'.cur
    /\ pc' = "done"
    /\ UNCHANGED <<input, target, start, iv, depth, position, vec, item>>

\* (A, B)::parse
ParseTuple2 ==
    /\ pc = "start"
    /\ KindOf(target) = "Tuple2"
    /\ res' = Tuple2Parse(TypeOf(target)[2], TypeOf(target)[3], input, cur)
    /\ cur' = res'.cur
    /\ pc' = "done"
    /\ UNCHANGED <<input, target, start, iv, depth, position, vec, item>>

\* (A, B, C)::parse
ParseTuple3 ==
    /\ pc = "start"
    /\ KindOf(target) = "Tuple3"
    /\ res' = Tuple3Parse(TypeOf(target)[2], TypeOf(target)[3],
                       TypeOf(target)[4], input, cur)
    /\ cur' = res'.cur
    /\ pc' = "done"
    /\ UNCHANGED <<input, target, start, iv, depth, position, vec, item>>

\* Vec::span
VecSpan(values) ==
    Span(values[1].span.start, values[Len(values)].span.start)

\* Vec::parse, the first T::parse
VecBegin ==
    /\ pc = "start"
    /\ KindOf(target) = "Vec"
    /\ item' = ParseItem(ItemOf(target), input, cur)
    /\ cur' = item'.cur
    /\ pc' = "loop"
    /\ UNCHANGED <<input, target, start, iv, depth, position, vec, res>>

\* Vec::parse, one iteration of while item.is_ok()
VecIter ==
    /\ pc = "loop"
    /\ KindOf(target) = "Vec"
    /\ item.ok
    /\ Len(vec) < MaxIter
    /\ vec' = Append(vec, item)
    /\ item' = ParseItem(ItemOf(target), input, cur)
    /\ cur' = item'.cur
    /\ UNCHANGED <<input, target, pc, start, iv, depth, position, res>>

\* VecReturn with the test on vec.len() lost: an empty vector is returned
\* as a success
VecReturnEmptyOk(values, value) ==
    IF Len(values) = 0
    THEN Ok(value, Span(value.pos, value.pos), <<>>, values, <<>>)
    ELSE Ok(value, VecSpan(values), <<>>, values, <<>>)

\* the return of Vec::parse
VecReturn(values, value) ==
    IF Len(values) = 0
    THEN Err(value, ParseError("Could not find vector.", value.pos))
    ELSE Ok(value, VecSpan(values), <<>>, values, <<>>)

\* Vec::parse, after the loop
VecEnd ==
    /\ pc = "loop"
    /\ KindOf(target) = "Vec"
    /\ ~item.ok
    /\ res' = VecReturn(vec, cur)
    /\ pc' = "done"
    /\ UNCHANGED <<input, target, start, cur, iv, depth, position, vec, item>>

\* Indent::span
IndentSpan(values) ==
    Span(values[1].span.start, values[Len(values)].span.end)

\* Indent::parse, up to the loop: the copy, its mode, the first T::parse
IndentBegin ==
    /\ pc = "start"
    /\ KindOf(target) = "Indent"
    /\ position' = cur.pos
    /\ item' = ParseItem(ItemOf(target), input, set_whitespace(cur, "Indent"))
    /\ iv' = item'.cur
    /\ depth' = StreamIndent(input, iv')
    /\ pc' = "loop"
    /\ UNCHANGED <<input, target, start, cur, vec, res>>

\* Indent::parse, one iteration of while item.is_ok()
IndentIter ==
    /\ pc = "loop"
    /\ KindOf(target) = "Indent"
    /\ item.ok
    /\ Len(vec) < MaxIter
    /\ position' = iv.pos
    /\ vec' = Append(vec, item)
    /\ item' = ParseItem(ItemOf(target), input, iv)
    /\ iv' = item'.cur
    /\ pc' = IF StreamIndent(input, iv') # depth THEN "break" ELSE "loop"
    /\ UNCHANGED <<input, target, start, cur, depth, res>>

\* the return of Indent::parse; value is the caller's cursor
IndentReturn(values, value, p) ==
    IF Len(values) = 0
    THEN Err(value, ParseError("Could not find Indent block.", p))
    ELSE Ok(value, IndentSpan(values), <<>>, values, <<>>)

\* Indent::parse, after the loop
IndentEnd ==
    /\ KindOf(target) = "Indent"
    /\ \/ pc = "loop" /\ ~item.ok
       \/ pc = "break"
    /\ res' = IndentReturn(vec, cur, position)
    /\ pc' = "done"
    /\ UNCHANGED <<input, target, start, cur, iv, depth, position, vec, item>>

----------------------------------------------------------------------------
(* Specifications.                                                         *)

Alphabet == {"a", "4", SPACE, ",", "(", ")", QUOTE, "="}

Targets ==
    {"Identifier", "Number", "StringValue", "Comma", "EqualEqual", "LeftParen",
     "RightParen", "Group<Paren,Number>", "Group<Paren,StringValue>",
     "List<Identifier,Comma>", "List<StringValue,Comma>", "[Number;2]",
     "(Identifier,Number)", "(Identifier,Comma,StringValue)",
     "Vec<Identifier>", "Vec<StringValue>", "Vec<List<Identifier,Comma>>",
     "Indent<Identifier>", "Indent<StringValue>",
     "Indent<List<Identifier,Comma>>"}

Init == InitWith(Texts(Alphabet, MaxLen), Targets)

Next ==
    \/ ParseIdentifier
    \/ ParseNumber
    \/ ParseStringValue
    \/ ParseToken
    \/ ParseLeft
    \/ ParseRight
    \/ ParseGroup
    \/ ParseList
    \/ ParseArray
    \/ ParseTuple2
    \/ ParseTuple3
    \/ VecBegin
    \/ VecIter
    \/ VecEnd
    \/ IndentBegin
    \/ IndentIter
    \/ IndentEnd

Spec == Init /\ [][Next]_vars

\* separated lists, over the characters a list of identifiers or strings
\* is made of
ListAlphabet == {"a", ",", SPACE, QUOTE}
ListTargets == {"List<Identifier,Comma>", "List<StringValue,Comma>"}
InitList == InitWith(Texts(ListAlphabet, MaxLenList), ListTargets)
NextList == ParseList
SpecList == InitList /\ [][NextList]_vars

\* delimited groups
GroupAlphabet == {"(", ")", "4", "2", SPACE, ","}
GroupTargets == {"Group<Paren,Number>", "Group<Paren,List<Number,Comma>>"}
InitGroup == InitWith(Texts(GroupAlphabet, MaxLenSmall), GroupTargets)
NextGroup == ParseGroup
SpecGroup == InitGroup /\ [][NextGroup]_vars

\* indentation blocks, over lines of identifiers
IndentAlphabet == {"a", SPACE, NL}
IndentTargets == {"Indent<Identifier>", "Indent<List<Identifier,Comma>>"}
InitIndent == InitWith(Texts(IndentAlphabet, MaxLenList), IndentTargets)
NextIndent ==
    \/ IndentBegin
    \/ IndentIter
    \/ IndentEnd
SpecIndent == InitIndent /\ [][NextIndent]_vars

\* repetitions (Vec and Indent) of identifiers and strings, over words,
\* quotes, blanks and line ends
RepeatAlphabet == {"a", "4", SPACE, NL, QUOTE}
RepeatTargets ==
    {"Vec<Identifier>", "Vec<StringValue>", "Indent<Identifier>",
     "Indent<StringValue>"}
InitRepeat == InitWith(Texts(RepeatAlphabet, MaxLenSmall), RepeatTargets)
NextRepeat ==
    \/ VecBegin
    \/ VecIter
    \/ VecEnd
    \/ IndentBegin
    \/ IndentIter
    \/ IndentEnd
SpecRepeat == InitRepeat /\ [][NextRepeat]_vars

\* the modes of a cursor
WhitespaceType == {"SkipAll", "KeepAll", "Indent"}

\* identifiers and numbers, called with the cursor at any position of the
\* text and in any mode
LeafAlphabet == {"a", "4", SPACE, ","}
LeafTargets == {"Identifier", "Number"}
InitLeaf ==
    /\ input \in Texts(LeafAlphabet, MaxLenSmall)
    /\ target \in LeafTargets
    /\ pc = "start"
    /\ start \in {CharStream(p, ws) : p \in 0..Len(input), ws \in WhitespaceType}
    /\ cur = start
    /\ iv = start
    /\ depth = 0
    /\ position = 0
    /\ vec = <<>>
    /\ item = NoResult
    /\ res = NoResult
NextLeaf ==
    \/ ParseIdentifier
    \/ ParseNumber
SpecLeaf == InitLeaf /\ [][NextLeaf]_vars

----------------------------------------------------------------------------
(* Properties.                                                             *)

Done == pc = "done"
IsCombinator ==
    KindOf(target) \in {"Group", "List", "Array", "Tuple2", "Tuple3", "Vec", "Indent"}

\* the component types of a combinator, in the order of their parsing
ChildTypes(t) ==
    CASE t[1] = "Group" -> <<<<"Left", t[2]>>, t[3], <<"Right", t[2]>>>>
      [] t[1] = "List" -> <<t[2], t[3]>>
      [] t[1] = "Tuple2" -> <<t[2], t[3]>>
      [] t[1] = "Tuple3" -> <<t[2], t[3], t[4]>>
      [] OTHER -> <<t[2]>>

\* some failure of type t on this input, at some position
FailuresOf(t, inp) ==
    {Parse(t, inp, CharStream(p, ws)).err : 
        p \in 0..Len(inp), ws \in {"SkipAll", "Indent"}} \ {NoError}

\* the types of parsing.rs, whose values have a span; the tokens of
\* tokens.rs are unit structs
IsSpanned == KindOf(target) \notin {"Token", "Left", "Right"}

\* C1: when a parse succeeds, the start of the result's span is the
\* position of the cursor before the call and its end is the position of
\* the caller's cursor after the call, for every parseable type
\* (Identifier, Number, StringValue, Group, List, Vec, array, tuples,
\* Indent).
C1_SpanIsCursorRange ==
    (Done /\ res.ok /\ IsSpanned) =>
        /\ res.span.start = start.pos
        /\ res.span.end = cur.pos

\* the first Item attempt of a List, made at the cursor of the call
FirstItem == Parse(ItemOf(target), input, start)

\* C2: List::parse returns Ok with no items when the first Item attempt
\* fails, whatever the failure; when it fails, an item had been collected
\* and the failure is the one of a later Item attempt.
C2_ListFailsOnlyAfterAnItem ==
    (Done /\ KindOf(target) = "List") =>
        /\ ~FirstItem.ok => (res.ok /\ res.kids = <<>>)
        /\ ~res.ok =>
            /\ FirstItem.ok
            /\ \E p \in 1..Len(input) :
                LET later == Parse(ItemOf(target), input, CharStream(p, "SkipAll"))
                IN  ~later.ok /\ later.err = res.err /\ later.cur = res.cur

\* a List whose first Item attempt failed softly on a non-empty input (an
\* opened string that is never closed) and that returned Ok
C2_Witness ==
    /\ Done
    /\ target = "List<StringValue,Comma>"
    /\ Len(input) > 1
    /\ ~FirstItem.ok
    /\ FirstItem.err.kind = "NotFound"
    /\ res.ok

\* the number of items of a text made of the identifier a, joined by
\* commas that a blank may follow; 0 for any other text
RECURSIVE JoinedItems(_, _)
JoinedItems(inp, p) ==
    IF p >= Len(inp) \/ inp[p + 1] # "a" THEN 0
    ELSE IF p + 1 = Len(inp) THEN 1
    ELSE IF inp[p + 2] # "," THEN 0
    ELSE LET q == IF p + 2 < Len(inp) /\ inp[p + 3] = SPACE THEN p + 3 ELSE p + 2
             rest == JoinedItems(inp, q)
         IN  IF rest = 0 THEN 0 ELSE rest + 1

\* C3: in a successful List of n >= 1 items every item but the last has a
\* separator recorded and the last has none; a text of n items joined by
\* n-1 separators gives exactly n items.
C3_SeparatorsRecorded ==
    (Done /\ KindOf(target) = "List") =>
        /\ (res.ok /\ Len(res.kids) >= 1) =>
            /\ Len(res.seps) = Len(res.kids)
            /\ \A i \in 1..(Len(res.kids) - 1) : res.seps[i]
            /\ ~res.seps[Len(res.kids)]
        /\ (target = "List<Identifier,Comma>" /\ JoinedItems(input, 0) >= 1) =>
            /\ res.ok
            /\ Len(res.kids) = JoinedItems(input, 0)

\* "a, a, a" parsed as List<Identifier, Comma>
C3_Witness ==
    /\ Done
    /\ target = "List<Identifier,Comma>"
    /\ input = <<"a", ",", SPACE, "a", ",", SPACE, "a">>
    /\ res.ok
    /\ res.seps = <<TRUE, TRUE, FALSE>>

\* a text that opens a string and never closes it
Unterminated(inp) ==
    LET q == SkipWs(inp, 0)
    IN  /\ q < Len(inp)
        /\ inp[q + 1] = QUOTE
        /\ \A i \in (q + 2)..Len(inp) : inp[i] # QUOTE

\* C4: StringValue::parse of a text with an opening quote and no closing
\* quote fails with the hard kind Error, never with NotFound.
C4_UnterminatedIsError ==
    (Done /\ target = "StringValue" /\ Unterminated(input)) =>
        /\ ~res.ok
        /\ res.err.kind = "Error"

\* C5: a failure returned by a combinator has the kind and the message of
\* a failure of one of its component parsers.
C5_FailureForwarded ==
    (Done /\ IsCombinator /\ ~res.ok) =>
        \E i \in 1..Len(ChildTypes(TypeOf(target))) :
            \E e \in FailuresOf(ChildTypes(TypeOf(target))[i], input) :
                e.kind = res.err.kind /\ e.msg = res.err.msg

\* C6: Group::parse parses Start, then Item, then End, and stops at the
\* first of them that fails, returning its failure with the cursor where it
\* left it; when all three succeed the cursor is just past the End token and
\* the span runs from the start of the Start token to the end of the End
\* token ("(42)" is consumed whole, with span 0 to 4).
C6_GroupInOrder ==
    (Done /\ KindOf(target) = "Group") =>
        LET D == TypeOf(target)[2]
            I == TypeOf(target)[3]
            s == StartParse(D, input, start)
            i == Parse(I, input, s.cur)
            e == EndParse(D, input, i.cur)
        IN  /\ ~s.ok => (~res.ok /\ res.err = s.err /\ cur = s.cur)
            /\ (s.ok /\ ~i.ok) => (~res.ok /\ res.err = i.err /\ cur = i.cur)
            /\ (s.ok /\ i.ok /\ ~e.ok) =>
                    (~res.ok /\ res.err = e.err /\ cur = e.cur)
            /\ (s.ok /\ i.ok /\ e.ok) =>
                    /\ res.ok
                    /\ cur.pos = e.span.end
                    /\ input[cur.pos] = DelimText(D)[2]
                    /\ res.span = Span(s.span.start, e.span.end)
                    /\ input[s.cur.pos] = DelimText(D)[1]
                    /\ s.cur.pos <= i.span.start
                    /\ i.span.end <= e.span.start
            /\ (target = "Group<Paren,Number>" /\ input = <<"(", "4", "2", ")">>) =>
                    /\ res.ok
                    /\ cur.pos = Len(input)
                    /\ res.span = Span(0, 4)

\* "(42)" parsed as Group<Paren, Number>
C6_Witness ==
    /\ Done
    /\ target = "Group<Paren,Number>"
    /\ input = <<"(", "4", "2", ")">>
    /\ res.ok
    /\ res.kids[2].val = <<"4", "2">>

\* C7: in SkipAll mode a successful Number::parse or Identifier::parse has
\* the run of characters as its value, and its span covers the run only:
\* it starts at the first character of the run, after the whitespace
\* skipped, and ends just after the last one.
C7_SpanCoversRunOnly ==
    (Done /\ target \in {"Number", "Identifier"} /\ res.ok) =>
        LET q == SkipWs(input, 0)
        IN  /\ res.val = SubSeq(input, q + 1, q + Len(res.val))
            /\ res.span.start = q
            /\ res.span.end = q + Len(res.val)

\* the literal of a token or of a side of a delimiter
LiteralOf(t) ==
    CASE t[1] = "Token" -> t[2]
      [] t[1] = "Left" -> <<DelimText(t[2])[1]>>
      [] OTHER -> <<DelimText(t[2])[2]>>

\* the literal stands in the text right after the leading whitespace
LiteralFollows(lit, inp) ==
    LET q == SkipWs(inp, 0)
    IN  /\ q + Len(lit) <= Len(inp)
        /\ SubSeq(inp, q + 1, q + Len(lit)) = lit

\* C8: a literal token parser succeeds only if the characters after the
\* leading whitespace are exactly the literal; otherwise it returns NotFound
\* at the position where the attempt started.
C8_ExactLiteral ==
    (Done /\ KindOf(target) \in {"Token", "Left", "Right"}) =>
        /\ res.ok <=> LiteralFollows(LiteralOf(TypeOf(target)), input)
        /\ ~res.ok => (res.err.kind = "NotFound" /\ res.err.pos = start.pos)

\* C9: Indent::parse fails when the first line is no Item; when it
\* succeeds, its items are at the depth of the first one and the caller's
\* cursor stands just after the last item returned, before the line whose
\* depth differs.
C9_IndentBlock ==
    (Done /\ target = "Indent<Identifier>") =>
        /\ ~Parse(<<"Identifier">>, input, set_whitespace(start, "Indent")).ok
                => ~res.ok
        /\ res.ok =>
            /\ \A k \in 1..Len(res.kids) :
                    StreamIndent(input, res.kids[k].cur) = depth
            /\ cur.pos = res.kids[Len(res.kids)].span.end

\* C10: a repetition performs no more iterations than there are characters
\* left in the input when it is called.
C10_LoopBounded ==
    (KindOf(target) \in {"Vec", "Indent"} /\ pc \in {"loop", "break", "done"}) =>
        Len(vec) <= Len(input) - start.pos

\* the composite types whose node is the sequence of its children
IsSequenceNode == KindOf(target) \in {"Vec", "Array", "Tuple2", "Tuple3", "Indent"}

\* C11: the span of a composite node produced by a successful parse (Vec,
\* array, 2- and 3-tuple, Indent) starts where the span of its first child
\* starts and ends where the span of its last child ends, and its start is
\* not after its end.
C11_SpanIsUnionOfChildren ==
    (Done /\ res.ok /\ IsSequenceNode) =>
        /\ res.span.start = res.kids[1].span.start
        /\ res.span.end = res.kids[Len(res.kids)].span.end
        /\ res.span.start <= res.span.end

RECURSIVE MatchedItems(_, _, _, _)

\* the items matched from r on, r being the outcome of an Item attempt
MatchedFrom(t, inp, r, n) ==
    IF r.ok THEN <<r>> \o MatchedItems(t, inp, r.cur, n - 1) ELSE <<>>

\* the outcomes of the Item attempts that match one after the other from
\* the cursor c, up to the first one that fails (at most n of them)
MatchedItems(t, inp, c, n) ==
    IF n = 0 THEN <<>> ELSE MatchedFrom(t, inp, Parse(t, inp, c), n)

\* the items of a sequence lie in the input in the order of the sequence
InInputOrder(kids) ==
    \A i \in 1..Len(kids) : \A j \in 1..Len(kids) :
        i < j => kids[i].span.end <= kids[j].span.start

\* C12: Vec::parse parses Item until the first Item failure and returns,
\* in input order, exactly the items matched before that failure; it fails
\* when no item matched, Indent::parse fails when no item matched as well,
\* and neither returns a success with an empty sequence.
C12_AtLeastOneMatch ==
    (Done /\ KindOf(target) \in {"Vec", "Indent"}) =>
        /\ res.ok => Len(res.kids) >= 1
        /\ res.ok => InInputOrder(res.kids)
        /\ KindOf(target) = "Vec" =>
              /\ res.ok =>
                    res.kids = MatchedItems(ItemOf(target), input, start,
                                            MaxIter + 1)
              /\ ~res.ok =>
                    /\ ~Parse(ItemOf(target), input, start).ok
                    /\ res.err.msg = "Could not find vector."
        /\ (KindOf(target) = "Indent" /\ ~res.ok) =>
              /\ ~Parse(ItemOf(target), input,
                        set_whitespace(start, "Indent")).ok
              /\ res.err.msg = "Could not find Indent block."

\* two identifiers are returned by Vec::parse and the attempt that ended
\* the repetition failed on a digit, before the end of the input
C12_Witness ==
    /\ Done
    /\ target = "Vec<Identifier>"
    /\ res.ok
    /\ Len(res.kids) = 2
    /\ res.kids[1].val = <<"a">>
    /\ res.kids[2].val = <<"a">>
    /\ input = <<"a", SPACE, "a", SPACE, "4">>
    /\ cur.pos = 3

\* the first character of an identifier, respectively of a number
FirstAccepts(which, ch) ==
    IF which = "Identifier" THEN is_alphabetic(ch) ELSE is_numeric(ch)

\* the first character the cursor of the call returns
FirstReturned == StreamNext(input, start).ch

\* the text read by a successful call is the text that ends at the cursor
TextEndsAtCursor ==
    /\ cur.pos - Len(res.val) >= start.pos
    /\ \A i \in 1..Len(res.val) :
          input[cur.pos - Len(res.val) + i] = res.val[i]

\* C13: when Identifier::parse or Number::parse fails (the first character
\* returned is not alphabetic, respectively not numeric, or the input is at
\* its end) the caller's cursor is as it was before the call, position and
\* mode; on success the mode of the caller's cursor is unchanged and the
\* character that ended the run is not consumed.
C13_CallerCursorKept ==
    (Done /\ KindOf(target) \in {"Identifier", "Number"}) =>
        /\ ~res.ok <=>
              (FirstReturned = NONE \/ ~FirstAccepts(KindOf(target), FirstReturned))
        /\ ~res.ok => cur = start
        /\ res.ok =>
              /\ cur.ws = start.ws
              /\ TextEndsAtCursor
              /\ cur.pos < Len(input) =>
                    ~Accepts(KindOf(target), input[cur.pos + 1])

\* a failure on a character that is in the text: in SkipAll mode the copy
\* has skipped blanks and read a digit where an identifier was wanted
C13_WitnessFailure ==
    /\ Done
    /\ target = "Identifier"
    /\ ~res.ok
    /\ start.ws = "SkipAll"
    /\ input = <<"a", SPACE, "4">>
    /\ start.pos = 1

====
